---- MODULE Spec2Model ----
(***************************************************************************)
(* A model of file_info.py: the size formatter (calculate_size), the size  *)
(* accumulator (get_size), the entry counter (count_file), the two         *)
(* renderers (short_mod, long_mod) and the driver loop (main).             *)
(*                                                                         *)
(* The file system is a finite forest of nodes.  Node 0 is the directory   *)
(* the walks start from; every other node names its parent directory.      *)
(* Python exceptions are values: an operation returns a record whose       *)
(* "raised" field names the exception that escapes it ("" when none).      *)
(***************************************************************************)
EXTENDS Integers, Sequences, FiniteSets, TLC

VARIABLES fs, platform, args, pc, status, calls, out,
          wpc, sizeRes, counts, fmtIn, fmtRes, fpc

vars == <<fs, platform, args, pc, status, calls, out,
          wpc, sizeRes, counts, fmtIn, fmtRes, fpc>>

\* Number of entries below the root in the trees the walks are checked on.
MaxNodes == 3

\* Longest argument list given to main.
MaxPaths == 2

\* A path that names nothing (nonexistent path, dangling link target).
NoNode == 0 - 1

Root == 0

----------------------------------------------------------------------------
(* The file system *)

\* One i-node.  kind is "file", "dir", "link" or "other" (fifo, socket,
\* device); "absent" marks an entry that has been removed.
\*   parent   the directory holding the entry (NoNode for the root)
\*   target   where a symbolic link points (a node or NoNode)
\*   listable os.scandir succeeds on the directory
\*   statable os.stat succeeds on the entry
\*   content  what open()/read of a regular file does
\*   owned    the owner's uid and gid are in the passwd/group databases
\*   st_size  size reported by stat
Node(kind, parent, target, listable, statable, content, owned, size) ==
    [kind |-> kind, parent |-> parent, target |-> target,
     listable |-> listable, statable |-> statable, content |-> content,
     owned |-> owned, st_size |-> size]

RECURSIVE Pow2(_)
Pow2(n) == IF n = 0 THEN 1 ELSE 2 * Pow2(n - 1)

\* Regular files get pairwise distinct sizes whose sums identify the files
\* that were added up.
FileSize(n) == Pow2(n)

Exists(f, n) == n \in DOMAIN f /\ f[n].kind # "absent"

\* Entries of directory d
Children(f, d) == {n \in DOMAIN f : Exists(f, n) /\ f[n].parent = d}

RECURSIVE SortedSeq(_)
SortedSeq(S) ==
    IF S = {} THEN <<>>
    ELSE LET m == CHOOSE x \in S : \A y \in S : x <= y
         IN <<m>> \o SortedSeq(S \ {m})

\* Path resolution as os.stat does it: follow symbolic links, give up on a
\* dangling link or on a loop of links.
RECURSIVE ResolveFrom(_, _, _)
ResolveFrom(f, p, fuel) ==
    IF ~Exists(f, p) THEN NoNode
    ELSE IF f[p].kind # "link" THEN p
    ELSE IF fuel = 0 THEN NoNode
    ELSE ResolveFrom(f, f[p].target, fuel - 1)

Resolve(f, p) == ResolveFrom(f, p, Cardinality(DOMAIN f))

\* os.stat(p) succeeds
StatOk(f, p) == Resolve(f, p) # NoNode /\ f[Resolve(f, p)].statable

\* os.path.isdir / isfile / islink / exists
IsDir(f, p) == StatOk(f, p) /\ f[Resolve(f, p)].kind = "dir"
IsFile(f, p) == StatOk(f, p) /\ f[Resolve(f, p)].kind = "file"
IsLink(f, p) == Exists(f, p) /\ f[p].kind = "link"
PathExists(f, p) == StatOk(f, p)

\* os.scandir(p) succeeds
CanScan(f, p) == IsDir(f, p) /\ f[Resolve(f, p)].listable

\* os.scandir(p): the entries of the directory, in listing order
Scandir(f, p) == SortedSeq(Children(f, Resolve(f, p)))

\* DirEntry.is_symlink / is_dir / is_file.  The entry type comes from the
\* directory listing; only a symbolic link is resolved, and a failure to
\* resolve it answers False.
EntryIsSymlink(f, e) == f[e].kind = "link"
EntryIsDir(f, e) ==
    IF f[e].kind = "link" THEN IsDir(f, e) ELSE f[e].kind = "dir"
EntryIsFile(f, e) ==
    IF f[e].kind = "link" THEN IsFile(f, e) ELSE f[e].kind = "file"

----------------------------------------------------------------------------
(* calculate_size *)

UNITS_1000 == <<"B", "KB", "MB", "GB", "TB", "PB", "EB">>
UNITS_1024 == <<"B", "KiB", "MiB", "GiB", "TiB", "PiB", "EiB">>

\* Largest exponent of the byte counts handed to calculate_size.
MaxExp == 8

\* A byte count is written m * base^e, base being the base of the ladder it
\* is formatted with, so that counts beyond 2^31 can be written down.
Bytes(n) == [m |-> n, e |-> 0]

RECURSIVE Pow(_, _)
Pow(b, k) == IF k = 0 THEN 1 ELSE b * Pow(b, k - 1)

\* floor(log_b(n)) for n >= 1
RECURSIVE ILog(_, _)
ILog(n, b) == IF n < b THEN 0 ELSE 1 + ILog(n \div b, b)

\* int(log2(size) / log2(base)).  The quotient of the two doubles has the
\* integer part of the exact logarithm on the byte counts used here, but
\* for 1000^7, where Python computes 6.999999999999999.
LogIndex(size, base) ==
    LET exact == size.e + ILog(size.m, base)
    IN IF base = 1000 /\ exact = 7 /\ size.m = Pow(base, ILog(size.m, base))
       THEN 6 ELSE exact

\* f"{x:.1f}" for x = num / den: the nearest tenth, an exact tie going to
\* the even digit.
Tenths(num, den) ==
    LET q == (10 * num) \div den
        r == (10 * num) % den
    IN IF 2 * r < den THEN q
       ELSE IF 2 * r > den THEN q + 1
       ELSE IF q % 2 = 0 THEN q ELSE q + 1

NoText == [raised |-> "", tenths |-> 0, decimals |-> 0, unit |-> "B", i |-> 0]

\* units[i]: IndexError when i is not an index of the ladder
UnitAt(text, units, i) ==
    IF i >= Len(units) THEN [text EXCEPT !.raised = "IndexError"]
    ELSE [text EXCEPT !.unit = units[i + 1]]

calculate_size(size, units) ==
    IF size.m <= 0 THEN NoText
    ELSE LET base == IF units = UNITS_1000 THEN 1000 ELSE 1024
             i == LogIndex(size, base)
             shift == i - size.e
             value == IF shift >= 0 THEN Tenths(size.m, Pow(base, shift))
                      ELSE 10 * size.m * Pow(base, 0 - shift)
         IN UnitAt([NoText EXCEPT !.tenths = value, !.decimals = 1, !.i = i],
                   units, i)

----------------------------------------------------------------------------
(* get_size *)

NoSize == [total |-> 0, printed |-> {}, raised |-> ""]

\* os.walk(top), followlinks=False, onerror=None: a directory that cannot
\* be listed yields nothing and the error is dropped; a symbolic link to a
\* directory is named in dirnames and not walked into.
RECURSIVE Walk(_, _), WalkInto(_, _)
Walk(f, top) ==
    IF ~CanScan(f, top) THEN <<>>
    ELSE LET entries == Scandir(f, top)
             isd(e) == EntryIsDir(f, e)
             nond(e) == ~EntryIsDir(f, e)
             dirs == SelectSeq(entries, isd)
         IN <<[dirpath |-> top, dirnames |-> dirs,
               filenames |-> SelectSeq(entries, nond)]>>
            \o WalkInto(f, dirs)
WalkInto(f, dirs) ==
    IF dirs = <<>> THEN <<>>
    ELSE (IF IsLink(f, Head(dirs)) THEN <<>> ELSE Walk(f, Head(dirs)))
         \o WalkInto(f, Tail(dirs))

\* A get_size whose handler is missing: the OSError leaves the walk.
AddSizeUncaught(f, acc, fp) ==
    IF StatOk(f, fp)
    THEN [acc EXCEPT !.total = @ + f[Resolve(f, fp)].st_size]
    ELSE [acc EXCEPT !.raised = "OSError"]

\* try: total_size += os.path.getsize(fp)  except OSError: print
AddSize(f, acc, fp) ==
    IF StatOk(f, fp)
    THEN [acc EXCEPT !.total = @ + f[Resolve(f, fp)].st_size]
    ELSE [acc EXCEPT !.printed = @ \cup {fp}]

\* for f in filenames
RECURSIVE SumFiles(_, _, _)
SumFiles(f, acc, names) ==
    IF names = <<>> \/ acc.raised # "" THEN acc
    ELSE SumFiles(f, AddSize(f, acc, Head(names)), Tail(names))

\* for dirpath, dirnames, filenames in os.walk(path)
RECURSIVE SumWalk(_, _, _)
SumWalk(f, acc, triples) ==
    IF triples = <<>> \/ acc.raised # "" THEN acc
    ELSE SumWalk(f, SumFiles(f, acc, Head(triples).filenames), Tail(triples))

get_size(f, path) ==
    IF IsFile(f, path)
    THEN [NoSize EXCEPT !.total = f[Resolve(f, path)].st_size]
    ELSE SumWalk(f, NoSize, Walk(f, path))

----------------------------------------------------------------------------
(* count_file *)

\* FileCount.__init__, with the lines count_file has printed
FileCount == [dirs |-> 0, files |-> 0, links |-> 0, printed |-> {}, raised |-> ""]

\* A handler that lets the error through to the caller.
ScandirFailedRaise(c, path) == [c EXCEPT !.raised = "OSError"]

\* except OSError as e: print(f"Cannot open directory: ...")
ScandirFailed(c, path) == [c EXCEPT !.printed = @ \cup {path}, !.raised = ""]

RECURSIVE count_file(_, _, _), CountEntries(_, _, _)

\* A loop body that forgets to descend into a subdirectory.
CountEntryFlat(f, entry, c) ==
    IF EntryIsSymlink(f, entry) THEN [c EXCEPT !.links = @ + 1]
    ELSE IF EntryIsDir(f, entry) THEN [c EXCEPT !.dirs = @ + 1]
    ELSE IF EntryIsFile(f, entry) THEN [c EXCEPT !.files = @ + 1]
    ELSE c

\* The body of the loop over os.scandir(path)
CountEntry(f, entry, c) ==
    IF EntryIsSymlink(f, entry) THEN [c EXCEPT !.links = @ + 1]
    ELSE IF EntryIsDir(f, entry)
         THEN count_file(f, entry, [c EXCEPT !.dirs = @ + 1])
    ELSE IF EntryIsFile(f, entry) THEN [c EXCEPT !.files = @ + 1]
    ELSE c

\* for entry in os.scandir(path): an exception ends the loop
CountEntries(f, entries, c) ==
    IF entries = <<>> \/ c.raised # "" THEN c
    ELSE CountEntries(f, Tail(entries), CountEntry(f, Head(entries), c))

count_file(f, path, c) ==
    IF ~CanScan(f, path) THEN ScandirFailed(c, path)
    ELSE LET r == CountEntries(f, Scandir(f, path), c)
         IN IF r.raised = "OSError" THEN ScandirFailed(r, path) ELSE r

----------------------------------------------------------------------------
(* stat_size, line_count, short_mod, long_mod *)

\* One thing written to standard output: a report line, a table with its
\* rows, or a message.  call is the iteration of main that printed it.
Item(what, path, rows) == [what |-> what, path |-> path, rows |-> rows, call |-> 0]

\* One message per path of S
Messages(what, S) ==
    LET ps == SortedSeq(S)
    IN [k \in 1 .. Len(ps) |-> Item(what, ps[k], <<>>)]

Returned(o) == [out |-> o, raised |-> ""]
Raised(o, exc) == [out |-> o, raised |-> exc]

\* except OSError as e: print(f"Error: {e}"); any other exception goes on
ExceptOSError(res, path) ==
    IF res.raised = "OSError"
    THEN Returned(res.out \o <<Item("Error", path, <<>>)>>)
    ELSE res

stat_size(f, path, multiplier) ==
    IF ~PathExists(f, path)
    THEN Returned(<<Item("Error: Path does not exist.", path, <<>>)>>)
    ELSE LET size == get_size(f, path)
             units == IF multiplier = 1000 THEN UNITS_1000 ELSE UNITS_1024
             text == calculate_size(Bytes(size.total), units)
         IN Raised(Messages("Error", size.printed), text.raised)

\* line_count: None after a failed open, an int otherwise; a file that does
\* not decode raises UnicodeDecodeError, which is no OSError.
line_count(f, filename) ==
    LET c == f[Resolve(f, filename)].content
    IN IF c = "denied"
       THEN [out |-> <<Item("Could not open file", filename, <<>>)>>,
             raised |-> "", lines |-> "None"]
       ELSE IF c = "binary"
       THEN [out |-> <<>>, raised |-> "UnicodeDecodeError", lines |-> "None"]
       ELSE [out |-> <<>>, raised |-> "", lines |-> "int"]

\* The body of the try block of short_mod
ShortBody(f, pathname) ==
    IF ~StatOk(f, pathname) THEN Raised(<<>>, "OSError")
    ELSE LET size == stat_size(f, pathname, 1000)
         IN IF size.raised # "" THEN size
            ELSE IF IsLink(f, pathname)
            THEN Returned(size.out \o <<Item("link line", pathname, <<>>)>>)
            ELSE IF IsDir(f, pathname)
            THEN LET c == count_file(f, pathname, FileCount)
                 IN Returned(size.out
                             \o Messages("Cannot open directory", c.printed)
                             \o <<Item("directory line", pathname, <<>>)>>)
            ELSE IF IsFile(f, pathname)
            THEN LET lc == line_count(f, pathname)
                 IN IF lc.raised # "" THEN Raised(size.out \o lc.out, lc.raised)
                    \* f"{lines:>23d}" with lines = None
                    ELSE IF lc.lines = "None"
                    THEN Raised(size.out \o lc.out, "TypeError")
                    ELSE Returned(size.out \o lc.out
                                  \o <<Item("file line", pathname, <<>>)>>)
            ELSE Returned(size.out)

short_mod(f, pathname) == ExceptOSError(ShortBody(f, pathname), pathname)

\* A row of the table of long_mod; an empty cell is "None".
Row(name, cnt, gid_uid, link) ==
    [Name |-> name, Counts |-> cnt, GidUid |-> gid_uid, Link |-> link]

\* A table whose Windows rows carry the numeric ids as well.
LongRowsWithIds(f, pathname, gid_uid, lines) ==
    IF IsDir(f, pathname)
    THEN <<Row(pathname, "files, directories, symlink", "gid / uid", "None")>>
    ELSE IF IsFile(f, pathname)
    THEN <<Row(pathname, lines, "gid / uid", "None")>>
    ELSE IF IsLink(f, pathname)
    THEN <<Row(pathname, "None", "gid / uid", "link_to")>>
    ELSE <<>>

\* data after the if / elif / elif chain of one platform branch
LongRows(f, pathname, gid_uid, lines) ==
    IF IsDir(f, pathname)
    THEN <<Row(pathname, "files, directories, symlink", gid_uid, "None")>>
    ELSE IF IsFile(f, pathname)
    THEN <<Row(pathname, lines, gid_uid, "None")>>
    ELSE IF IsLink(f, pathname)
    THEN <<Row(pathname, "None", gid_uid, "link_to")>>
    ELSE <<>>

\* One platform branch: count_file or line_count, then data.append
LongBranch(f, pathname, gid_uid, o) ==
    IF IsDir(f, pathname)
    THEN LET c == count_file(f, pathname, FileCount)
         IN Returned(o \o Messages("Cannot open directory", c.printed)
                       \o <<Item("table", pathname, LongRows(f, pathname, gid_uid, "None"))>>)
    ELSE IF IsFile(f, pathname)
    THEN LET lc == line_count(f, pathname)
         IN IF lc.raised # "" THEN Raised(o \o lc.out, lc.raised)
            ELSE Returned(o \o lc.out
                            \o <<Item("table", pathname,
                                      LongRows(f, pathname, gid_uid,
                                               IF lc.lines = "None" THEN "None lines"
                                               ELSE "lines"))>>)
    ELSE Returned(o \o <<Item("table", pathname, LongRows(f, pathname, gid_uid, "None"))>>)

\* The body of the try block of long_mod
LongBody(f, os_name, pathname) ==
    IF ~StatOk(f, pathname) THEN Raised(<<>>, "OSError")
    ELSE LET size == stat_size(f, pathname, 1000)
         IN IF size.raised # "" THEN size
            ELSE IF os_name = "Windows"
            THEN LongBranch(f, pathname, "None", size.out)
            ELSE IF os_name = "Linux"
            THEN \* grp.getgrgid / pwd.getpwuid: KeyError for an unknown id
                 IF ~f[Resolve(f, pathname)].owned THEN Raised(size.out, "KeyError")
                 ELSE LongBranch(f, pathname, "gid / uid", size.out)
            ELSE Returned(size.out \o <<Item("table", pathname, <<>>)>>)

long_mod(f, os_name, pathname) ==
    ExceptOSError(LongBody(f, os_name, pathname), pathname)

----------------------------------------------------------------------------
(* main *)

\* A driver that looks at -l first.
RendererLongFirst(a) == IF a.l THEN "long_mod" ELSE "short_mod"

\* if args.s: short_mod  elif args.l: long_mod  else: short_mod
Renderer(a) ==
    IF a.s THEN "short_mod" ELSE IF a.l THEN "long_mod" ELSE "short_mod"

\* parser.parse_args(): no path given means ['.']
ParseArgs(s, l, given) ==
    [s |-> s, l |-> l, paths |-> IF given = <<>> THEN <<Root>> ELSE given]

----------------------------------------------------------------------------
(* Trees the two walks are applied to *)

TreeNodes == 0 .. MaxNodes

RootNode == Node("dir", NoNode, NoNode, TRUE, TRUE, "text", TRUE, 0)

\* The shapes an entry n can take in a tree whose directories are D
EntryShapes(n, D) ==
       {Node("file", p, NoNode, TRUE, s, "text", TRUE, FileSize(n)) :
            p \in D, s \in BOOLEAN}
  \cup {Node("dir", p, NoNode, l, TRUE, "text", TRUE, 0) :
            p \in D, l \in BOOLEAN}
  \cup {Node("link", p, t, TRUE, TRUE, "text", TRUE, 0) :
            p \in D, t \in TreeNodes \cup {NoNode}}
  \cup {Node("other", p, NoNode, TRUE, TRUE, "text", TRUE, 0) :
            p \in D}

DirsOf(f) == {d \in DOMAIN f : f[d].kind = "dir"}

NoArgs == [s |-> FALSE, l |-> FALSE, paths |-> <<>>]
NoFmtIn == [size |-> Bytes(0), units |-> UNITS_1000]

InitWalk ==
    /\ fs = [k \in {Root} |-> RootNode]
    /\ platform = "Linux"
    /\ args = NoArgs
    /\ pc = 1
    /\ status = "idle"
    /\ calls = <<>>
    /\ out = <<>>
    /\ wpc = "start"
    /\ sizeRes = NoSize
    /\ counts = FileCount
    /\ fmtIn = NoFmtIn
    /\ fmtRes = NoText
    /\ fpc = "idle"

\* The directory gets one more entry (creat, mkdir, symlink, mkfifo) before
\* the program runs on it.
MakeEntry ==
    /\ wpc = "start"
    /\ Cardinality(DOMAIN fs) <= MaxNodes
    /\ LET n == Cardinality(DOMAIN fs)
       IN \E e \in EntryShapes(n, DirsOf(fs)) :
              fs' = [k \in 0 .. n |-> IF k = n THEN e ELSE fs[k]]
    /\ UNCHANGED <<platform, args, pc, status, calls, out,
                   wpc, sizeRes, counts, fmtIn, fmtRes, fpc>>

\* size = get_size(path) on the root of the tree
GetSizeCall ==
    /\ wpc = "start"
    /\ sizeRes' = get_size(fs, Root)
    /\ wpc' = "sized"
    /\ UNCHANGED <<fs, platform, args, pc, status, calls, out, counts, fmtIn, fmtRes, fpc>>

\* counts = FileCount(); count_file(pathname, counts)
CountFileCall ==
    /\ wpc = "sized"
    /\ counts' = count_file(fs, Root, FileCount)
    /\ wpc' = "counted"
    /\ UNCHANGED <<fs, platform, args, pc, status, calls, out, sizeRes, fmtIn, fmtRes, fpc>>

NextWalk == MakeEntry \/ GetSizeCall \/ CountFileCall

SpecWalk == InitWalk /\ [][NextWalk]_vars

----------------------------------------------------------------------------
(* What the walks are expected to find, stated on the tree itself *)

Entries(f) == {n \in DOMAIN f : n # Root /\ Exists(f, n)}

\* Every directory on the way from the root down to entry n can be listed
RECURSIVE Reached(_, _)
Reached(f, n) ==
    IF n = Root THEN TRUE
    ELSE f[f[n].parent].listable /\ Reached(f, f[n].parent)

ReachedEntries(f) == {n \in Entries(f) : Reached(f, n)}

AllListable(f) == \A n \in DOMAIN f : f[n].kind = "dir" => f[n].listable
AllStatable(f) == \A n \in DOMAIN f : f[n].statable

OfKind(f, S, k) == {n \in S : f[n].kind = k}

RECURSIVE SumSizes(_, _)
SumSizes(f, S) ==
    IF S = {} THEN 0
    ELSE LET n == CHOOSE x \in S : TRUE
         IN f[Resolve(f, n)].st_size + SumSizes(f, S \ {n})

\* The tree with every entry of S removed
Without(f, S) ==
    [n \in DOMAIN f |-> IF n \in S THEN [f[n] EXCEPT !.kind = "absent"] ELSE f[n]]

\* The tree with the contents of every unlistable directory removed
Emptied(f) == Without(f, Entries(f) \ ReachedEntries(f))

\* The non-directory entries the walk lists and cannot size
Unsizable(f) == {n \in ReachedEntries(f) : ~EntryIsDir(f, n) /\ ~StatOk(f, n)}
Sizable(f) == {n \in ReachedEntries(f) : ~EntryIsDir(f, n) /\ StatOk(f, n)}

\* C3: on a tree whose directories can all be listed, count_file on the root
\* with a fresh FileCount ends with links = the number of symbolic links,
\* dirs = the number of directories and files = the number of regular files
\* among the entries of the tree, so a link to a directory counts as one
\* link and nothing below its target is counted through it.
C3_CountsEveryEntryOnce ==
    (wpc = "counted" /\ AllListable(fs)) =>
        /\ counts.links = Cardinality(OfKind(fs, Entries(fs), "link"))
        /\ counts.dirs = Cardinality(OfKind(fs, Entries(fs), "dir"))
        /\ counts.files = Cardinality(OfKind(fs, Entries(fs), "file"))

\* A counted tree with a nested file and a link to a non-empty directory
C3_Witness ==
    /\ wpc = "counted" /\ AllListable(fs)
    /\ \E n \in Entries(fs) : fs[n].kind = "file" /\ fs[n].parent # Root
    /\ \E k \in Entries(fs) :
          fs[k].kind = "link" /\ IsDir(fs, k) /\ Children(fs, Resolve(fs, k)) # {}

\* C4 as stated: the size of a directory whose entries can all be listed
\* and sized is the sum of the sizes of its regular files, a symbolic link
\* adding nothing.
C4_LinksAddNothing ==
    (wpc # "start" /\ AllListable(fs) /\ AllStatable(fs)) =>
        sizeRes.total = SumSizes(fs, OfKind(fs, Entries(fs), "file"))

\* C8: count_file reports a subdirectory it cannot open and does not raise;
\* the counts are those of the tree with the contents of the unlistable
\* directories removed, each remaining entry counted once.
C8_UnlistableSubtreeSkipped ==
    wpc = "counted" =>
        LET g == Emptied(fs)
        IN /\ counts.raised = ""
           /\ counts.printed = {d \in ReachedEntries(fs) :
                                  fs[d].kind = "dir" /\ ~fs[d].listable}
           /\ counts.links = Cardinality(OfKind(g, Entries(g), "link"))
           /\ counts.dirs = Cardinality(OfKind(g, Entries(g), "dir"))
           /\ counts.files = Cardinality(OfKind(g, Entries(g), "file"))

\* An unlistable, non-empty directory below the top level, followed by a
\* file in the same directory
C8_Witness ==
    /\ wpc = "counted"
    /\ \E d \in ReachedEntries(fs) :
          /\ fs[d].kind = "dir" /\ ~fs[d].listable /\ fs[d].parent # Root
          /\ \E n \in Entries(fs) :
                n > d /\ fs[n].kind = "file" /\ fs[n].parent = fs[d].parent
    /\ counts.files > 0

----------------------------------------------------------------------------
(* The formatter applied to byte counts *)

\* Leading parts of the byte counts: the ends of the unit ranges, the values
\* of the documented examples, and the values next to a rounding step.
Mantissas == {0 - 1, 0, 1, 999, 1000, 1023, 1024, 1280, 1536,
              999949, 999999, 1048575}

InitFmt ==
    /\ fs = [k \in {Root} |-> RootNode]
    /\ platform = "Linux"
    /\ args = NoArgs
    /\ pc = 1
    /\ status = "idle"
    /\ calls = <<>>
    /\ out = <<>>
    /\ wpc = "idle"
    /\ sizeRes = NoSize
    /\ counts = FileCount
    /\ fmtIn \in [size : [m : Mantissas, e : 0 .. MaxExp],
                  units : {UNITS_1000, UNITS_1024}]
    /\ fmtRes = NoText
    /\ fpc = "start"

\* return calculate_size(size, units)
CalculateSizeCall ==
    /\ fpc = "start"
    /\ fmtRes' = calculate_size(fmtIn.size, fmtIn.units)
    /\ fpc' = "done"
    /\ UNCHANGED <<fs, platform, args, pc, status, calls, out,
                   wpc, sizeRes, counts, fmtIn>>

NextFmt == CalculateSizeCall

SpecFmt == InitFmt /\ [][NextFmt]_vars

FmtBase == IF fmtIn.units = UNITS_1000 THEN 1000 ELSE 1024

\* floor(log_base(size)) of the formatted byte count
FmtExactLog == fmtIn.size.e + ILog(fmtIn.size.m, FmtBase)

\* C5 as stated: a byte count >= 1 below the range of the largest unit is
\* printed with the unit at index i, base^i <= size < base^(i+1), and with a
\* printed value v, 1 <= v < base.
C5_ValueBelowBase ==
    (fpc = "done" /\ fmtIn.size.m >= 1 /\ FmtExactLog < Len(fmtIn.units) - 1) =>
        /\ fmtRes.raised = ""
        /\ fmtRes.unit = fmtIn.units[FmtExactLog + 1]
        /\ 10 <= fmtRes.tenths
        /\ fmtRes.tenths < 10 * FmtBase

\* C10 as stated: for every byte count >= 0 calculate_size returns a string
\* whose unit is one of the ladder, the index being at most the ladder
\* length minus one.
C10_IndexClamped ==
    (fpc = "done" /\ fmtIn.size.m >= 0) =>
        /\ fmtRes.raised = ""
        /\ fmtRes.i <= Len(fmtIn.units) - 1
        /\ \E k \in 1 .. Len(fmtIn.units) : fmtRes.unit = fmtIn.units[k]

----------------------------------------------------------------------------
(* The driver run on argument lists *)

\* The directory main is run in: "." with a readable text file (1), a file
\* that cannot be opened (2), a file that does not decode (3), a directory
\* that cannot be listed (4), links to a file (5), to a directory (6), to
\* nothing (7) and to a fifo (9), a fifo (8), a file of an owner that is
\* not in the databases (10) and a file that cannot be stat'ed (11).
MainFs ==
    [n \in 0 .. 11 |->
        CASE n = 0 -> RootNode
          [] n = 1 -> Node("file", Root, NoNode, TRUE, TRUE, "text", TRUE, FileSize(1))
          [] n = 2 -> Node("file", Root, NoNode, TRUE, TRUE, "denied", TRUE, FileSize(2))
          [] n = 3 -> Node("file", Root, NoNode, TRUE, TRUE, "binary", TRUE, FileSize(3))
          [] n = 4 -> Node("dir", Root, NoNode, FALSE, TRUE, "text", TRUE, 0)
          [] n = 5 -> Node("link", Root, 1, TRUE, TRUE, "text", TRUE, 0)
          [] n = 6 -> Node("link", Root, Root, TRUE, TRUE, "text", TRUE, 0)
          [] n = 7 -> Node("link", Root, NoNode, TRUE, TRUE, "text", TRUE, 0)
          [] n = 8 -> Node("other", Root, NoNode, TRUE, TRUE, "text", TRUE, 0)
          [] n = 9 -> Node("link", Root, 8, TRUE, TRUE, "text", TRUE, 0)
          [] n = 10 -> Node("file", Root, NoNode, TRUE, TRUE, "text", FALSE, FileSize(10))
          [] OTHER -> Node("file", Root, NoNode, TRUE, FALSE, "text", TRUE, FileSize(11))]

\* The paths of the command line: the entries above and a path that does
\* not exist.
MainPaths == DOMAIN MainFs \cup {NoNode}

SeqsUpTo(S, n) == UNION {[1 .. k -> S] : k \in 0 .. n}

Platforms == {"Linux", "Windows", "Darwin"}

InitMain ==
    /\ fs = MainFs
    /\ platform \in Platforms
    /\ \E s \in BOOLEAN, l \in BOOLEAN, given \in SeqsUpTo(MainPaths, MaxPaths) :
          args = ParseArgs(s, l, given)
    /\ pc = 1
    /\ status = "running"
    /\ calls = <<>>
    /\ out = <<>>
    /\ wpc = "idle"
    /\ sizeRes = NoSize
    /\ counts = FileCount
    /\ fmtIn = NoFmtIn
    /\ fmtRes = NoText
    /\ fpc = "idle"

\* One iteration of "for path in args.paths": the renderer is called inside
\* try / except OSError; any other exception ends the program.
MainStep ==
    /\ status = "running"
    /\ pc <= Len(args.paths)
    /\ LET path == args.paths[pc]
           renderer == Renderer(args)
           res == ExceptOSError(IF renderer = "long_mod"
                                THEN long_mod(fs, platform, path)
                                ELSE short_mod(fs, path), path)
       IN /\ calls' = Append(calls, [renderer |-> renderer, path |-> path])
          /\ out' = out \o [k \in 1 .. Len(res.out) |-> [res.out[k] EXCEPT !.call = pc]]
          /\ status' = IF res.raised # "" THEN "crashed" ELSE "running"
          /\ pc' = IF res.raised # "" THEN pc ELSE pc + 1
    /\ UNCHANGED <<fs, platform, args, wpc, sizeRes, counts, fmtIn, fmtRes, fpc>>

\* The loop is over: main returns
MainExit ==
    /\ status = "running"
    /\ pc > Len(args.paths)
    /\ status' = "exited"
    /\ UNCHANGED <<fs, platform, args, pc, calls, out,
                   wpc, sizeRes, counts, fmtIn, fmtRes, fpc>>

NextMain == MainStep \/ MainExit

SpecMain == InitMain /\ [][NextMain]_vars

\* The tables printed so far
Tables == {k \in 1 .. Len(out) : out[k].what = "table"}

Populated(cell) == cell # "None"

\* C1 as stated: whatever the paths and what happened to them, the run is
\* not terminated and the renderer is invoked for every path, in argument
\* order.
C1_EveryPathProcessed ==
    status # "running" =>
        /\ status = "exited"
        /\ Len(calls) = Len(args.paths)
        /\ \A k \in 1 .. Len(calls) : calls[k].path = args.paths[k]

\* C2: main calls exactly one renderer for each path it gets to, and which
\* one depends on the flags only: short_mod with neither flag, with -s and
\* with both flags, long_mod with -l alone.
C2_ModeFromFlags ==
    /\ Len(calls) = (IF status = "crashed" THEN pc ELSE pc - 1)
    /\ \A k \in 1 .. Len(calls) :
          /\ calls[k].path = args.paths[k]
          /\ (~args.s /\ ~args.l) => calls[k].renderer = "short_mod"
          /\ (args.s /\ ~args.l) => calls[k].renderer = "short_mod"
          /\ (~args.s /\ args.l) => calls[k].renderer = "long_mod"
          /\ (args.s /\ args.l) => calls[k].renderer = "short_mod"

\* A finished run with both flags over two paths
C2_Witness ==
    /\ status = "exited" /\ args.s /\ args.l
    /\ Len(calls) = 2 /\ out # <<>>

\* C6 as stated: in a row of long mode, Counts is populated only for a
\* directory, Link only for a symbolic link, Gid/Uid only where the platform
\* has numeric ids; for a regular file Counts and Link are empty.
C6_CountsOnlyForDirectories ==
    \A k \in Tables : \A j \in 1 .. Len(out[k].rows) :
        LET r == out[k].rows[j]
        IN /\ Populated(r.Counts) => IsDir(fs, r.Name)
           /\ Populated(r.Link) => IsLink(fs, r.Name)
           /\ Populated(r.GidUid) => platform = "Linux"
           /\ IsFile(fs, r.Name) => ~Populated(r.Counts) /\ ~Populated(r.Link)

\* C6, amended: Counts holds the entry counts for a directory and the line
\* count for a regular file and is empty otherwise; Link is populated only
\* for a symbolic link, and then the path leads neither to a directory nor
\* to a regular file; Gid/Uid is populated on Linux and empty on Windows.
C6_CountsForDirectoriesAndFiles ==
    \A k \in Tables : \A j \in 1 .. Len(out[k].rows) :
        LET r == out[k].rows[j]
        IN /\ r.Name = out[k].path
           /\ IsDir(fs, r.Name) => r.Counts = "files, directories, symlink"
           /\ IsFile(fs, r.Name) => r.Counts \in {"lines", "None lines"}
           /\ Populated(r.Counts) => IsDir(fs, r.Name) \/ IsFile(fs, r.Name)
           /\ Populated(r.Link) =>
                 IsLink(fs, r.Name) /\ ~IsDir(fs, r.Name) /\ ~IsFile(fs, r.Name)
           /\ (IsDir(fs, r.Name) \/ IsFile(fs, r.Name)) => ~Populated(r.Link)
           /\ Populated(r.GidUid) <=> platform = "Linux"

\* Long mode has printed the row of a regular file and the row of a link
C6_Witness ==
    /\ \E k \in Tables : \E j \in 1 .. Len(out[k].rows) :
          IsFile(fs, out[k].path) /\ out[k].rows[j].Counts = "lines"
    /\ \E k \in Tables : \E j \in 1 .. Len(out[k].rows) :
          Populated(out[k].rows[j].Link)

\* C7 as stated: in long mode every path whose stat succeeds gets a table
\* of exactly one row, whatever its kind and whatever the platform; no
\* table of zero rows is printed for it.  Stated of the calls of long_mod
\* that returned.
C7_OneRowPerPath ==
    \A c \in 1 .. Len(calls) :
        (/\ calls[c].renderer = "long_mod"
         /\ StatOk(fs, calls[c].path)
         /\ ~(status = "crashed" /\ c = Len(calls))) =>
            \E k \in Tables : out[k].call = c /\ Len(out[k].rows) = 1

====
